---- MODULE Spec2Model ----
(***************************************************************************)
(* A model of src/src/acc.rs: the Account of an ACME client.               *)
(*                                                                         *)
(* Account::certificate reads a persisted (private key, certificate) pair  *)
(* and Account::new_order creates an order with the provider through a     *)
(* signed, nonce-protected POST that is retried on a stale nonce.          *)
(*                                                                         *)
(* Persistence, the Directory, the JWS signer, retry_call, expect_header   *)
(* and read_json live in other files of the crate; they are modelled from  *)
(* their documented contract and the way acc.rs uses them.                 *)
(***************************************************************************)
EXTENDS Naturals, Sequences, FiniteSets

\* ------------------------------------------------------------------ bounds

\* Writes the (out of scope) download path may make to the store.
MaxPuts == 2
\* new_order calls made on the Account, one after the other.
MaxCalls == 2
\* Longest alt_names slice passed to new_order.
MaxAlt == 2

\* ------------------------------------------------------------ value domains

\* Callers that share the Account and call new_order at the same time.
Threads == {"t1", "t2"}

Realms == {"foo@bar.com", "other@bar.com"}

Names == {"acmetest.example.com", "alt.example.com"}

\* PersistKind::PrivateKey and PersistKind::Certificate.
Kinds == {"PrivateKey", "Certificate"}

\* Byte strings a store entry may hold: "A", "e-acute" (two bytes), a lead
\* byte followed by a non-continuation byte, and a byte no UTF-8 text holds.
SampleBytes == {<<65>>, <<195, 169>>, <<195, 40>>, <<255>>}

\* Option<T>
None == [some |-> FALSE]

Some(v) == [some |-> TRUE, val |-> v]

\* Result<T>
Ok(v) == [ok |-> TRUE, val |-> v]

Err(e) == [ok |-> FALSE, err |-> e]

\* The result slot of a call that has not returned yet.
Pending == [ok |-> FALSE, err |-> "pending"]

\* ------------------------------------------------------------------- state

VARIABLES
    inner,      \* AccountInner: directory, contact_email, acme_key, api_account
    store,      \* the Persist backend: PersistKey -> Option<Vec<u8>>
    puts,       \* writes made to the store so far
    cert,       \* the certificate() call in progress, or the last one made
    seen,       \* what certificate() last returned from the store as it is now
    call,       \* the new_order() call in progress, or the last one made
    ncalls,     \* new_order calls entered so far
    dir_nonce,  \* the Directory: nonces handed out so far
    provider,   \* the provider: order resources created so far
    orders,     \* the resource locations of the Orders returned so far
    par,        \* the new_order() calls of concurrent callers of the Account
    ret         \* what the accessor called last returned

certVars == <<store, puts, cert, seen>>

orderVars == <<call, ncalls, dir_nonce, provider, orders>>

otherVars == <<par, ret>>

vars == <<inner, store, puts, cert, seen, call, ncalls, dir_nonce, provider, orders,
          par, ret>>

\* ------------------------------------------------------------- persistence

PersistKey_new(realm, kind, name) == [realm |-> realm, kind |-> kind, name |-> name]

PersistKeys == {PersistKey_new(r, k, n) : r \in Realms, k \in Kinds, n \in Names}

\* Persist::get: the entry, or a backend failure.
persist_get(key) == {Ok(store[key]), Err("io")}

\* ------------------------------------------------------------------- UTF-8

\* Length of the UTF-8 sequence a lead byte announces, 0 for a byte that
\* starts none.
Utf8Width(b) ==
    IF b < 128 THEN 1
    ELSE IF b \in 194..223 THEN 2
    ELSE IF b \in 224..239 THEN 3
    ELSE IF b \in 240..244 THEN 4
    ELSE 0

\* The range the second byte of a sequence must lie in, given its lead byte.
Utf8Second(b) ==
    IF b = 224 THEN 160..191
    ELSE IF b = 237 THEN 128..159
    ELSE IF b = 240 THEN 144..191
    ELSE IF b = 244 THEN 128..143
    ELSE 128..191

RECURSIVE IsUtf8(_)
IsUtf8(bytes) ==
    IF bytes = <<>> THEN TRUE
    ELSE LET w == Utf8Width(bytes[1]) IN
         /\ w > 0
         /\ Len(bytes) >= w
         /\ w >= 2 => bytes[2] \in Utf8Second(bytes[1])
         /\ \A i \in 3..w : bytes[i] \in 128..191
         /\ IsUtf8(SubSeq(bytes, w + 1, Len(bytes)))

\* String::from_utf8: the same bytes as a String, or an error.
from_utf8(bytes) == IF IsUtf8(bytes) THEN Ok(bytes) ELSE Err("FromUtf8Error")

\* Result::ok
result_ok(res) == IF res.ok THEN Some(res.val) ELSE None

\* ------------------------------------------------------------- certificate

Certificate_new(k, c) == [private_key |-> k, certificate |-> c]

realm == inner.contact_email

pk_key(primary_name) == PersistKey_new(realm, "PrivateKey", primary_name)

\* pk_crt under the contact address the crate's tests use, whatever the
\* Account's.
pk_crt_fixed_realm(primary_name) ==
    PersistKey_new("foo@bar.com", "Certificate", primary_name)

pk_crt(primary_name) == PersistKey_new(realm, "Certificate", primary_name)

\* .and_then(|s| String::from_utf8(s).ok())
DecodeEntry(entry) == IF entry.some THEN result_ok(from_utf8(entry.val)) ELSE None

\* ReadText with the backend failure dropped instead of returned
\* (`persist.get(&key).ok().flatten()`).
ReadTextSwallow(got) == IF got.ok THEN Ok(DecodeEntry(got.val)) ELSE Ok(None)

\* persist.get(&key)?.and_then(...): a backend failure leaves the function.
ReadText(got) == IF got.ok THEN Ok(DecodeEntry(got.val)) ELSE Err(got.err)

\* CertificateMatch with a missing certificate half defaulted.
CertificateMatchKeyOnly(private_key, certificate) ==
    IF private_key.some
    THEN Some(Certificate_new(private_key.val,
                              IF certificate.some THEN certificate.val ELSE <<>>))
    ELSE None

\* match (private_key, certificate) { (Some(k), Some(c)) => Some(..), _ => None }
CertificateMatch(private_key, certificate) ==
    IF private_key.some /\ certificate.some
    THEN Some(Certificate_new(private_key.val, certificate.val))
    ELSE None

CertIdle ==
    [pc |-> "idle", primary_name |-> "", private_key |-> None,
     reads |-> <<>>, result |-> Pending, entry_puts |-> 0, again |-> FALSE]

\* What a certificate() call that returns leaves in `seen`: its result, when no
\* write reached the store while it ran.
Seen(c) ==
    IF c.pc = "done" /\ c.entry_puts = puts
    THEN Some([primary_name |-> c.primary_name, result |-> c.result])
    ELSE IF c.pc = "done" THEN None
    ELSE seen

\* The download path of the crate (out of scope here) writes an entry.
PersistPut(key, bytes) ==
    /\ puts < MaxPuts
    /\ store' = [store EXCEPT ![key] = Some(bytes)]
    /\ puts' = puts + 1
    /\ seen' = None
    /\ UNCHANGED <<inner, cert, orderVars, otherVars>>

\* certificate(primary_name) is entered; `entry_puts` notes the writes made so
\* far and `again` that the store is the one an earlier call for the same name
\* returned from.
certificate(primary_name) ==
    /\ cert.pc \in {"idle", "done"}
    /\ cert' = [CertIdle EXCEPT
                  !.pc = "read_key", !.primary_name = primary_name,
                  !.entry_puts = puts,
                  !.again = seen.some /\ seen.val.primary_name = primary_name]
    /\ UNCHANGED <<inner, store, puts, seen, orderVars, otherVars>>

\* CertReadKey that returns none at once when the private key is missing or
\* is not text, without reading the certificate.
CertReadKeyShortCut ==
    /\ cert.pc = "read_key"
    /\ \E got \in persist_get(pk_key(cert.primary_name)) :
         LET r == ReadText(got)
             log == Append(cert.reads, [key |-> pk_key(cert.primary_name), got |-> got])
         IN cert' = IF r.ok /\ r.val.some
                    THEN [cert EXCEPT !.pc = "read_crt", !.private_key = r.val,
                                      !.reads = log]
                    ELSE IF r.ok
                    THEN [cert EXCEPT !.pc = "done", !.result = Ok(None),
                                      !.reads = log]
                    ELSE [cert EXCEPT !.pc = "done", !.result = Err(r.err),
                                      !.reads = log]
    /\ seen' = Seen(cert')
    /\ UNCHANGED <<inner, store, puts, orderVars, otherVars>>

\* read primary key
CertReadKey ==
    /\ cert.pc = "read_key"
    /\ \E got \in persist_get(pk_key(cert.primary_name)) :
         LET r == ReadText(got)
             log == Append(cert.reads, [key |-> pk_key(cert.primary_name), got |-> got])
         IN cert' = IF r.ok
                    THEN [cert EXCEPT !.pc = "read_crt", !.private_key = r.val,
                                      !.reads = log]
                    ELSE [cert EXCEPT !.pc = "done", !.result = Err(r.err),
                                      !.reads = log]
    /\ seen' = Seen(cert')
    /\ UNCHANGED <<inner, store, puts, orderVars, otherVars>>

\* CertReadCrt that removes a certificate entry it could not decode.
CertReadCrtCleaning ==
    /\ cert.pc = "read_crt"
    /\ \E got \in persist_get(pk_crt(cert.primary_name)) :
         LET r == ReadText(got)
             log == Append(cert.reads, [key |-> pk_crt(cert.primary_name), got |-> got])
         IN /\ cert' = IF r.ok
                       THEN [cert EXCEPT !.pc = "done", !.reads = log,
                                 !.result = Ok(CertificateMatch(cert.private_key, r.val))]
                       ELSE [cert EXCEPT !.pc = "done", !.result = Err(r.err),
                                         !.reads = log]
            /\ store' = IF r.ok /\ ~r.val.some
                        THEN [store EXCEPT ![pk_crt(cert.primary_name)] = None]
                        ELSE store
    /\ seen' = Seen(cert')
    /\ UNCHANGED <<inner, puts, orderVars, otherVars>>

\* read certificate, and return
CertReadCrt ==
    /\ cert.pc = "read_crt"
    /\ \E got \in persist_get(pk_crt(cert.primary_name)) :
         LET r == ReadText(got)
             log == Append(cert.reads, [key |-> pk_crt(cert.primary_name), got |-> got])
         IN cert' = IF r.ok
                    THEN [cert EXCEPT !.pc = "done", !.reads = log,
                              !.result = Ok(CertificateMatch(cert.private_key, r.val))]
                    ELSE [cert EXCEPT !.pc = "done", !.result = Err(r.err),
                                      !.reads = log]
    /\ seen' = Seen(cert')
    /\ UNCHANGED <<inner, store, puts, orderVars, otherVars>>

\* --------------------------------------------------------------- new_order

\* Directory::api_directory().newOrder
NewOrderUrl == [path |-> "new-order", id |-> 0]

\* The location of the n-th order resource the provider creates.
OrderUrl(n) == [path |-> "order", id |-> n]

\* The account resource the provider registered: the key id of acme_key.
AccountUrl == [path |-> "acct", id |-> 1]

\* Attempts retry_call makes before it gives up on a stale nonce.
MaxAttempts == 3

AltNameSeqs == UNION {[1..n -> Names] : n \in 0..MaxAlt}

\* Chain with the two iterators in the other order.
ChainSwapped(prim_arr, alt_names) == alt_names \o prim_arr

\* prim_arr.iter().chain(alt_names)
Chain(prim_arr, alt_names) == prim_arr \o alt_names

\* |s| ApiIdentifier { _type: "dns".into(), value: s.to_string() }
ApiIdentifier(s) == [type |-> "dns", value |-> s]

\* The ApiOrder new_order builds: domains.map(..).collect()
ApiOrder(primary_name, alt_names) ==
    LET domains == Chain(<<primary_name>>, alt_names)
    IN [identifiers |-> [i \in 1..Len(domains) |-> ApiIdentifier(domains[i])]]

\* Directory::new_nonce: a nonce the provider has not handed out before, or a
\* failure of the request that fetches it.
new_nonce == {Ok(dir_nonce + 1), Err("nonce request failed")}

\* ClosureRequestsNonce with new_nonce() hoisted out of the closure: one nonce
\* for all attempts.
ClosureRequestsNonceOnce(attempt) == attempt = 1

\* Whether the closure passed to retry_call asks the Directory for a nonce when
\* it is invoked for the given attempt: `let nonce = ..new_nonce()?` is its
\* first statement.
ClosureRequestsNonce(attempt) == TRUE

\* make_jws_kid: the envelope signed with the account key, or a signing failure.
make_jws_kid(url, nonce, acme_key, payload) ==
    {Ok([protected |-> [alg |-> "ES256", kid |-> acme_key.key_id,
                        nonce |-> nonce, url |-> url],
         payload |-> payload]),
     Err("signing failed")}

\* ClosureResult with the content type of plain JSON.
ClosureResultPlainJson(url, signed) ==
    IF signed.ok
    THEN Ok([req |-> [method |-> "POST", url |-> url,
                      content_type |-> "application/json"],
             body |-> Some(signed.val)])
    ELSE Err(signed.err)

\* ClosureResult with the signing failure dropped
\* (`Ok((req, make_jws_kid(..).ok()))`).
ClosureResultUnsigned(url, signed) ==
    Ok([req |-> [method |-> "POST", url |-> url,
                 content_type |-> "application/jose+json"],
        body |-> result_ok(signed)])

\* What the closure returns once make_jws_kid has answered:
\* `let body = make_jws_kid(..)?; .. Ok((req, Some(body)))`.
ClosureResult(url, signed) ==
    IF signed.ok
    THEN Ok([req |-> [method |-> "POST", url |-> url,
                      content_type |-> "application/jose+json"],
             body |-> Some(signed.val)])
    ELSE Err(signed.err)

\* The identifiers with every repeated one dropped: a provider may answer with
\* the names of the order made unique.
RECURSIVE Unique(_)
Unique(ids) ==
    IF Len(ids) = 0 THEN <<>>
    ELSE LET front == Unique(SubSeq(ids, 1, Len(ids) - 1))
             last == ids[Len(ids)]
         IN IF \E i \in 1..Len(front) : front[i] = last THEN front
            ELSE Append(front, last)

\* The order objects the provider may put in the body of a success: the
\* identifiers as submitted, or made unique.
ProviderOrders(request) ==
    IF request.body.some
    THEN {[identifiers |-> ids, status |-> "pending"] :
             ids \in {request.body.val.payload.identifiers,
                      Unique(request.body.val.payload.identifiers)}}
    ELSE {}

\* The provider's answers to one POST of the order-creation endpoint, when it
\* has created n order resources so far: the nonce rejected, another failure,
\* or the order created, with or without the location header and with or
\* without a body that parses.
ProviderResponses(request, n) ==
    {[status |-> 400, problem |-> "badNonce", location |-> None, json |-> None],
     [status |-> 500, problem |-> "serverInternal", location |-> None, json |-> None]}
    \cup {[status |-> 201, problem |-> "", location |-> l, json |-> j] :
             l \in {None, Some(OrderUrl(n + 1))},
             j \in {None} \cup {Some(o) : o \in ProviderOrders(request)}}

IsSuccess(res) == res.status \in 200..299

\* RetryDecision without the bound on the attempts.
RetryDecisionUnbounded(res, attempts) ==
    IF IsSuccess(res) THEN "return"
    ELSE IF res.problem = "badNonce" THEN "retry"
    ELSE "fail"

\* RetryDecision that tries again on every failure.
RetryDecisionAnyFailure(res, attempts) ==
    IF IsSuccess(res) THEN "return"
    ELSE IF attempts < MaxAttempts THEN "retry"
    ELSE "fail"

\* retry_call, once a response is in: try again on a stale nonce while
\* attempts remain, hand any other failure (and the last stale one) to the
\* caller, and return a success.
RetryDecision(res, attempts) ==
    IF IsSuccess(res) THEN "return"
    ELSE IF res.problem = "badNonce" /\ attempts < MaxAttempts THEN "retry"
    ELSE "fail"

expect_header(res, name) ==
    IF res[name].some THEN Ok(res[name].val) ELSE Err("missing header")

read_json(res) == IF res.json.some THEN Ok(res.json.val) ELSE Err("bad json")

Order_new(acc_inner, api_order, url) ==
    [inner |-> acc_inner, api_order |-> api_order, url |-> url]

\* NewOrderFinish with a missing location header defaulted to an empty url.
NewOrderFinishDefaultUrl(res) ==
    LET url == IF res.location.some THEN res.location.val ELSE [path |-> "", id |-> 0]
        api_order == read_json(res)
    IN IF ~api_order.ok THEN Err(api_order.err)
       ELSE Ok([order |-> Order_new(inner, api_order.val, url)])

\* NewOrderFinish that takes the closure's `url` (the endpoint) for the url of
\* the order.
NewOrderFinishEndpointUrl(res) ==
    LET url == expect_header(res, "location")
        api_order == read_json(res)
    IN IF ~url.ok THEN Err(url.err)
       ELSE IF ~api_order.ok THEN Err(api_order.err)
       ELSE Ok([order |-> Order_new(inner, api_order.val, inner.directory.newOrder)])

\* NewOrderFinish that hands Order::new the `order` that was submitted instead
\* of the `api_order` read from the response.
NewOrderFinishSubmittedOrder(res) ==
    LET url == expect_header(res, "location")
        api_order == read_json(res)
    IN IF ~url.ok THEN Err(url.err)
       ELSE IF ~api_order.ok THEN Err(api_order.err)
       ELSE Ok([order |-> Order_new(inner,
                                    [identifiers |-> call.order.identifiers,
                                     status |-> api_order.val.status],
                                    url.val)])

\* NewOrderFinish with a body that does not parse defaulted
\* (`read_json(res).unwrap_or_default()`).
NewOrderFinishDefaultBody(res) ==
    LET url == expect_header(res, "location")
        api_order == IF res.json.some THEN res.json.val
                     ELSE [identifiers |-> <<>>, status |-> ""]
    IN IF ~url.ok THEN Err(url.err)
       ELSE Ok([order |-> Order_new(inner, api_order, url.val)])

\* new_order once retry_call has returned a response: the location header,
\* the body, and the Order.
NewOrderFinish(res) ==
    LET url == expect_header(res, "location")
        api_order == read_json(res)
    IN IF ~url.ok THEN Err(url.err)
       ELSE IF ~api_order.ok THEN Err(api_order.err)
       ELSE Ok([order |-> Order_new(inner, api_order.val, url.val)])

CallIdle ==
    [pc |-> "idle", primary_name |-> "", alt_names |-> <<>>,
     order |-> [identifiers |-> <<>>], attempts |-> 0, requests |-> 0,
     nonce |-> 0, tokens |-> <<>>, signs |-> 0, signed |-> Pending,
     built |-> Pending, sent |-> <<>>,
     result |-> Pending, repeat |-> FALSE]

\* The locals of new_order(primary_name, alt_names) once the identifiers are
\* constructed; `repeat` notes that the call before returned an Order for the
\* same arguments.
Entered(before, primary_name, alt_names) ==
    [CallIdle EXCEPT
       !.pc = "nonce",
       !.primary_name = primary_name,
       !.alt_names = alt_names,
       !.order = ApiOrder(primary_name, alt_names),
       !.repeat = /\ before.pc = "done"
                  /\ before.result.ok
                  /\ before.primary_name = primary_name
                  /\ before.alt_names = alt_names]

\* AfterNonce with the failure of new_nonce defaulted
\* (`new_nonce().unwrap_or_default()`): the closure goes on to sign.
AfterNonceDefaulted(c, got) ==
    IF got.ok
    THEN [c EXCEPT !.pc = "sign", !.attempts = @ + 1, !.requests = @ + 1,
                   !.nonce = got.val, !.tokens = Append(@, got.val)]
    ELSE [c EXCEPT !.pc = "sign", !.attempts = @ + 1, !.requests = @ + 1,
                   !.nonce = 0]

\* The closure's `let nonce = ..new_nonce()?`: the nonce, or the closure's (and
\* so retry_call's and new_order's) error.
AfterNonce(c, got) ==
    IF got.ok
    THEN [c EXCEPT !.pc = "sign", !.attempts = @ + 1, !.requests = @ + 1,
                   !.nonce = got.val, !.tokens = Append(@, got.val)]
    ELSE [c EXCEPT !.pc = "done", !.attempts = @ + 1, !.requests = @ + 1,
                   !.result = Err(got.err)]

\* EnvelopeNonce with the nonce read from the Directory when the envelope is
\* signed: the last one it handed out, to whichever call.
EnvelopeNonceOfDirectory(c) == dir_nonce

\* The nonce the closure passes to make_jws_kid: its own local `nonce`.
EnvelopeNonce(c) == c.nonce

\* The closure's make_jws_kid(..)? and request: retry_call goes on to send, or
\* returns the closure's error.
AfterSign(c, url, signed) ==
    LET built == ClosureResult(url, signed) IN
    IF built.ok
    THEN [c EXCEPT !.pc = "send", !.signs = @ + 1, !.signed = signed,
                   !.built = built]
    ELSE [c EXCEPT !.pc = "done", !.signs = @ + 1, !.signed = signed,
                   !.built = built, !.result = Err(built.err)]

\* retry_call with the response to the request it sent: another attempt, or
\* new_order's result.
AfterSend(c, res) ==
    LET log == Append(c.sent, [attempt |-> c.attempts,
                               request |-> c.built.val, res |-> res])
        decision == RetryDecision(res, c.attempts)
    IN IF decision = "retry" THEN [c EXCEPT !.pc = "nonce", !.sent = log]
       ELSE [c EXCEPT !.pc = "done", !.sent = log,
                      !.result = IF decision = "return" THEN NewOrderFinish(res)
                                 ELSE Err(res.problem)]

\* The provider once it has answered a request.
Provided(res) ==
    [created |-> IF IsSuccess(res) THEN provider.created + 1 ELSE provider.created]

\* new_order(primary_name, alt_names) is entered: construct the identifiers.
new_order(primary_name, alt_names) ==
    /\ call.pc \in {"idle", "done"}
    /\ ncalls < MaxCalls
    /\ ncalls' = ncalls + 1
    /\ call' = Entered(call, primary_name, alt_names)
    /\ UNCHANGED <<inner, certVars, dir_nonce, provider, orders, otherVars>>

\* retry_call invokes the closure, which obtains a nonce.
ClosureNonce ==
    /\ call.pc = "nonce"
    /\ IF ClosureRequestsNonce(call.attempts + 1)
       THEN \E got \in new_nonce :
              /\ dir_nonce' = IF got.ok THEN got.val ELSE dir_nonce
              /\ call' = AfterNonce(call, got)
       ELSE /\ call' = [call EXCEPT !.pc = "sign", !.attempts = @ + 1]
            /\ UNCHANGED dir_nonce
    /\ UNCHANGED <<inner, certVars, ncalls, provider, orders, otherVars>>

\* The closure signs the order and builds the request; retry_call returns the
\* closure's error if it has one.
ClosureSign ==
    /\ call.pc = "sign"
    /\ LET url == inner.directory.newOrder IN
       \E signed \in make_jws_kid(url, EnvelopeNonce(call), inner.acme_key,
                                  call.order) :
         call' = AfterSign(call, url, signed)
    /\ UNCHANGED <<inner, certVars, ncalls, dir_nonce, provider, orders, otherVars>>

\* retry_call sends the request; the provider answers; retry_call retries or
\* returns, and new_order turns a returned response into its result.
RetryCallSend ==
    /\ call.pc = "send"
    /\ \E res \in ProviderResponses(call.built.val, provider.created) :
         /\ provider' = Provided(res)
         /\ call' = AfterSend(call, res)
         /\ orders' = IF call'.pc = "done" /\ call'.result.ok
                      THEN Append(orders, call'.result.val.order.url)
                      ELSE orders
    /\ UNCHANGED <<inner, certVars, ncalls, dir_nonce, otherVars>>

\* ------------------------------------------------- concurrent new_order calls

\* A caller enters new_order on the shared Account.
par_new_order(t, primary_name, alt_names) ==
    /\ par[t].pc = "idle"
    /\ par' = [par EXCEPT ![t] = Entered(CallIdle, primary_name, alt_names)]
    /\ UNCHANGED <<inner, certVars, orderVars, ret>>

\* The closure of a caller's retry_call obtains a nonce from the Directory the
\* callers share.
ParClosureNonce(t) ==
    /\ par[t].pc = "nonce"
    /\ IF ClosureRequestsNonce(par[t].attempts + 1)
       THEN \E got \in new_nonce :
              /\ dir_nonce' = IF got.ok THEN got.val ELSE dir_nonce
              /\ par' = [par EXCEPT ![t] = AfterNonce(par[t], got)]
       ELSE /\ par' = [par EXCEPT ![t] = [par[t] EXCEPT !.pc = "sign",
                                                        !.attempts = @ + 1]]
            /\ UNCHANGED dir_nonce
    /\ UNCHANGED <<inner, certVars, call, ncalls, provider, orders, ret>>

\* The closure of a caller signs and builds its request.
ParClosureSign(t) ==
    /\ par[t].pc = "sign"
    /\ LET url == inner.directory.newOrder IN
       \E signed \in make_jws_kid(url, EnvelopeNonce(par[t]), inner.acme_key,
                                  par[t].order) :
         par' = [par EXCEPT ![t] = AfterSign(par[t], url, signed)]
    /\ UNCHANGED <<inner, certVars, orderVars, ret>>

\* A caller's retry_call sends its request to the provider the callers share.
ParRetryCallSend(t) ==
    /\ par[t].pc = "send"
    /\ \E res \in ProviderResponses(par[t].built.val, provider.created) :
         /\ provider' = Provided(res)
         /\ par' = [par EXCEPT ![t] = AfterSend(par[t], res)]
    /\ UNCHANGED <<inner, certVars, call, ncalls, dir_nonce, orders, ret>>

\* --------------------------------------------------------------- accessors

\* AcmeKey::to_pem: the PEM bytes of the account key ("-K" stands for them).
KeyPem == <<45, 75>>

\* acme_private_key_pem that moves the PEM out of the key it serialises.
acme_private_key_pem_taking ==
    /\ ret' = Some([fn |-> "acme_private_key_pem",
                    val |-> from_utf8(inner.acme_key.pem).val])
    /\ inner' = [inner EXCEPT !.acme_key.pem = <<>>]
    /\ UNCHANGED <<certVars, orderVars, par>>

\* String::from_utf8(self.inner.acme_key.to_pem()).expect("from_utf8")
acme_private_key_pem ==
    /\ from_utf8(inner.acme_key.pem).ok
    /\ ret' = Some([fn |-> "acme_private_key_pem",
                    val |-> from_utf8(inner.acme_key.pem).val])
    /\ UNCHANGED <<inner, certVars, orderVars, par>>

\* &self.inner.contact_email
contact_email ==
    /\ ret' = Some([fn |-> "contact_email", val |-> inner.contact_email])
    /\ UNCHANGED <<inner, certVars, orderVars, par>>

\* &self.inner.api_account
api_account ==
    /\ ret' = Some([fn |-> "api_account", val |-> inner.api_account])
    /\ UNCHANGED <<inner, certVars, orderVars, par>>

\* ----------------------------------------------------------- specifications

\* Account::new: the four fields of AccountInner, for any contact address.
AccountInit ==
    inner \in [directory : {[newOrder |-> NewOrderUrl]},
               contact_email : Realms,
               acme_key : {[pem |-> KeyPem, key_id |-> AccountUrl]},
               api_account : {[status |-> "valid"]}]

OrderInit ==
    /\ call = CallIdle
    /\ ncalls = 0
    /\ dir_nonce = 0
    /\ provider = [created |-> 0]
    /\ orders = <<>>
    /\ par = [t \in Threads |-> CallIdle]
    /\ ret = None

CertInit ==
    /\ store = [k \in PersistKeys |-> None]
    /\ puts = 0
    /\ cert = CertIdle
    /\ seen = None

Init ==
    /\ AccountInit
    /\ CertInit
    /\ OrderInit

InitCert == Init

NextCert ==
    \/ \E key \in PersistKeys, bytes \in SampleBytes : PersistPut(key, bytes)
    \/ \E primary_name \in Names : certificate(primary_name)
    \/ CertReadKey
    \/ CertReadCrt

SpecCert == InitCert /\ [][NextCert]_vars

Next ==
    \/ \E primary_name \in Names, alt_names \in AltNameSeqs :
         new_order(primary_name, alt_names)
    \/ ClosureNonce
    \/ ClosureSign
    \/ RetryCallSend

Spec == Init /\ [][Next]_vars

\* Every operation of the Account, in any order and interleaving, on the empty
\* store of a new MemoryPersist and for the name test_create_order uses.
NextAccount ==
    \/ certificate("acmetest.example.com")
    \/ CertReadKey
    \/ CertReadCrt
    \/ new_order("acmetest.example.com", <<>>)
    \/ ClosureNonce
    \/ ClosureSign
    \/ RetryCallSend
    \/ acme_private_key_pem
    \/ contact_email
    \/ api_account

SpecAccount == Init /\ [][NextAccount]_vars

\* The callers of Threads each call new_order once, in any interleaving.
NextPar ==
    \E t \in Threads :
        \/ \E primary_name \in Names : par_new_order(t, primary_name, <<>>)
        \/ ParClosureNonce(t)
        \/ ParClosureSign(t)
        \/ ParRetryCallSend(t)

SpecPar == Init /\ [][NextPar]_vars


\* ------------------------------------------------------------------ claims

\* A store entry as one persist.get returned it: present and valid UTF-8.
EntryIsText(got) == got.ok /\ got.val.some /\ IsUtf8(got.val.val)

CertReadsOk == \A i \in 1..Len(cert.reads) : cert.reads[i].got.ok

\* C1: when certificate(primary_name) has returned and neither lookup failed
\* in the backend, it made its two lookups under (contact, PrivateKey,
\* primary_name) and (contact, Certificate, primary_name), its result is not an
\* error, and the result is a Certificate exactly when both entries were
\* present and valid text; the Certificate then holds those two texts.
C1_CertificateIffBothText ==
    (cert.pc = "done" /\ CertReadsOk) =>
        /\ Len(cert.reads) = 2
        /\ cert.reads[1].key = [realm |-> inner.contact_email, kind |-> "PrivateKey",
                                name |-> cert.primary_name]
        /\ cert.reads[2].key = [realm |-> inner.contact_email, kind |-> "Certificate",
                                name |-> cert.primary_name]
        /\ cert.result.ok
        /\ cert.result.val.some <=>
             (EntryIsText(cert.reads[1].got) /\ EntryIsText(cert.reads[2].got))
        /\ cert.result.val.some =>
             cert.result.val.val = [private_key |-> cert.reads[1].got.val.val,
                                    certificate |-> cert.reads[2].got.val.val]

C1_Witness ==
    /\ cert.pc = "done"
    /\ CertReadsOk
    /\ cert.result.ok
    /\ cert.result.val.some
    /\ cert.reads[1].got.val.val = <<195, 169>>

\* C2: as soon as a lookup of certificate(primary_name) has failed in the
\* backend, the call has returned and its result is that error: neither none
\* nor a Certificate.
C2_BackendFailureIsError ==
    (\E i \in 1..Len(cert.reads) : ~cert.reads[i].got.ok) =>
        /\ cert.pc = "done"
        /\ ~cert.result.ok
        /\ cert.result = Err(cert.reads[Len(cert.reads)].got.err)
        /\ cert.result # Ok(None)

C2_Witness ==
    /\ cert.pc = "done"
    /\ Len(cert.reads) = 2
    /\ cert.reads[1].got.ok
    /\ ~cert.reads[2].got.ok
    /\ ~cert.result.ok

\* The identifiers in the payload of the k-th request of the current call.
SentIdentifiers(k) == call.sent[k].request.body.val.payload.identifiers

\* The nonce in the protected header of the k-th request of the current call.
SentNonce(k) == call.sent[k].request.body.val.protected.nonce

\* C3: every request new_order(primary_name, alt_names) sends carries
\* 1 + len(alt_names) identifiers: primary_name first, then alt_names in the
\* order given, duplicates kept, each of type "dns".
C3_IdentifierSequence ==
    \A k \in 1..Len(call.sent) :
        /\ call.sent[k].request.body.some
        /\ Len(SentIdentifiers(k)) = 1 + Len(call.alt_names)
        /\ SentIdentifiers(k)[1].value = call.primary_name
        /\ \A i \in 1..Len(call.alt_names) :
               SentIdentifiers(k)[i + 1].value = call.alt_names[i]
        /\ \A i \in 1..Len(SentIdentifiers(k)) : SentIdentifiers(k)[i].type = "dns"

C3_Witness ==
    /\ Len(call.sent) >= 1
    /\ Len(call.alt_names) = 2
    /\ call.alt_names[1] = call.alt_names[2]
    /\ call.alt_names[1] # call.primary_name

IsStale(res) == ~IsSuccess(res) /\ res.problem = "badNonce"

\* A success response with the location header and a body that parses.
IsCreated(res) == IsSuccess(res) /\ res.location.some /\ res.json.some

StaleThenCreated ==
    /\ Len(call.sent) >= 2
    /\ IsStale(call.sent[1].res)
    /\ IsCreated(call.sent[2].res)

\* C4: when the first attempt of new_order was rejected for a stale nonce and
\* the second succeeded, new_order has returned the Order of the second
\* response, and the two attempts obtained and sent two different nonces.
C4_StaleThenSuccess ==
    StaleThenCreated =>
        /\ call.pc = "done"
        /\ call.result.ok
        /\ call.result.val.order.url = call.sent[2].res.location.val
        /\ Len(call.sent) = 2
        /\ Len(call.tokens) = 2
        /\ call.tokens[1] # call.tokens[2]
        /\ SentNonce(1) = call.tokens[1]
        /\ SentNonce(2) = call.tokens[2]

C4_Witness ==
    /\ StaleThenCreated
    /\ call.result.ok

AllStale == \A k \in 1..Len(call.sent) : IsStale(call.sent[k].res)

\* C5: a call never makes more than MaxAttempts attempts; when every one of
\* MaxAttempts attempts was rejected for a stale nonce the call has returned
\* the stale-nonce error, which it returns only then; and a call whose
\* attempts were all rejected never returns an Order.
C5_StaleRetriesBounded ==
    /\ call.attempts <= MaxAttempts
    /\ Len(call.sent) <= MaxAttempts
    /\ (AllStale /\ Len(call.sent) = MaxAttempts) =>
           (call.pc = "done" /\ call.result = Err("badNonce"))
    /\ call.result = Err("badNonce") => (AllStale /\ Len(call.sent) = MaxAttempts)
    /\ (AllStale /\ call.pc = "done") => ~call.result.ok

C5_Witness ==
    /\ AllStale
    /\ Len(call.sent) = MaxAttempts
    /\ call.pc = "done"
    /\ call.result = Err("badNonce")

\* C6: a failure response other than a stale nonce is the last response of the
\* call: the call has returned that error, made no further attempt and asked
\* for no further nonce.
C6_OtherFailureNotRetried ==
    \A k \in 1..Len(call.sent) :
        (~IsSuccess(call.sent[k].res) /\ ~IsStale(call.sent[k].res)) =>
            /\ k = Len(call.sent)
            /\ call.pc = "done"
            /\ call.result = Err(call.sent[k].res.problem)
            /\ call.attempts = call.sent[k].attempt
            /\ call.requests = call.sent[k].attempt
            /\ Len(call.tokens) = call.sent[k].attempt

C6_Witness ==
    /\ Len(call.sent) = 2
    /\ call.sent[2].res.problem = "serverInternal"
    /\ call.pc = "done"

\* C7: a call has asked the Directory for one nonce per attempt; the nonces it
\* obtained are pairwise different and the latest the Directory handed out;
\* the k-th request is the k-th attempt's and carries the nonce obtained in
\* that attempt; only a failed nonce request leaves an attempt without one.
C7_OneFreshNoncePerAttempt ==
    /\ call.requests = call.attempts
    /\ \A i, j \in 1..Len(call.tokens) : i < j => call.tokens[i] < call.tokens[j]
    /\ call.tokens # <<>> => call.tokens[Len(call.tokens)] = dir_nonce
    /\ \A k \in 1..Len(call.sent) :
           /\ call.sent[k].attempt = k
           /\ k <= Len(call.tokens)
           /\ SentNonce(k) = call.tokens[k]
    /\ \/ Len(call.tokens) = call.attempts
       \/ /\ Len(call.tokens) + 1 = call.attempts
          /\ call.pc = "done"
          /\ call.result = Err("nonce request failed")

C7_Witness ==
    /\ call.attempts = 3
    /\ Len(call.tokens) = 3
    /\ Len(call.sent) = 3
    /\ ncalls = 2

\* C8: a success response without the location header is the last response of
\* the call: new_order has returned the missing-header error and no Order, and
\* made no further attempt.
C8_MissingLocationIsError ==
    \A k \in 1..Len(call.sent) :
        (IsSuccess(call.sent[k].res) /\ ~call.sent[k].res.location.some) =>
            /\ k = Len(call.sent)
            /\ call.pc = "done"
            /\ ~call.result.ok
            /\ call.result = Err("missing header")
            /\ call.attempts = call.sent[k].attempt
            /\ call.requests = call.sent[k].attempt

C8_Witness ==
    /\ call.pc = "done"
    /\ Len(call.sent) = 2
    /\ IsSuccess(call.sent[2].res)
    /\ ~call.sent[2].res.location.some
    /\ call.sent[2].res.json.some
    /\ call.result = Err("missing header")

\* C9: the Orders returned so far have pairwise different resource locations,
\* and a call that has returned an Order sent a request of its own and
\* returned the location of the response to its last request.
C9_EveryCallCreatesAnOrder ==
    /\ \A i, j \in 1..Len(orders) : i # j => orders[i] # orders[j]
    /\ (call.pc = "done" /\ call.result.ok) =>
           /\ Len(call.sent) >= 1
           /\ IsCreated(call.sent[Len(call.sent)].res)
           /\ call.result.val.order.url = call.sent[Len(call.sent)].res.location.val
           /\ orders # <<>>
           /\ orders[Len(orders)] = call.result.val.order.url

C9_Witness ==
    /\ call.repeat
    /\ call.pc = "done"
    /\ call.result.ok
    /\ Len(orders) = 2
    /\ orders[1] # orders[2]

SigningFailed == call.signed # Pending /\ ~call.signed.ok

\* C10: once make_jws_kid has failed in an attempt, new_order has returned that
\* error; no request of that attempt was sent.
C10_SigningFailureIsFatal ==
    SigningFailed =>
        /\ call.pc = "done"
        /\ call.result = Err(call.signed.err)
        /\ \A k \in 1..Len(call.sent) : call.sent[k].attempt < call.attempts

C10_Witness ==
    /\ SigningFailed
    /\ call.attempts = 2
    /\ Len(call.sent) = 1
    /\ call.pc = "done"

LastSent == call.sent[Len(call.sent)]

\* C11: a new_order call that has returned holds either an Order or an error,
\* never both and never neither. An Order is returned only for a last
\* response that is a success with the location header and a body that
\* parses; it then holds that location, that parsed body and the Account's
\* inner. A success whose body does not parse yields an error.
C11_OrderOrError ==
    call.pc = "done" =>
        /\ call.result # Pending
        /\ \/ /\ call.result.ok
              /\ DOMAIN call.result = {"ok", "val"}
              /\ DOMAIN call.result.val = {"order"}
              /\ call.sent # <<>>
              /\ IsCreated(LastSent.res)
              /\ call.result.val.order.url = LastSent.res.location.val
              /\ call.result.val.order.api_order = LastSent.res.json.val
              /\ call.result.val.order.inner = inner
           \/ /\ ~call.result.ok
              /\ DOMAIN call.result = {"ok", "err"}
              /\ call.sent # <<>> => ~IsCreated(LastSent.res)

C11_Witness ==
    /\ call.pc = "done"
    /\ call.sent # <<>>
    /\ IsSuccess(LastSent.res)
    /\ LastSent.res.location.some
    /\ ~LastSent.res.json.some
    /\ call.result = Err("bad json")

\* The identifier list of the Order a call has returned.
ReturnedIdentifiers == call.result.val.order.api_order.identifiers

\* C12 as stated: the Order returned by new_order carries the identifier list
\* that was submitted.
C12_ReturnedEqualsSubmitted ==
    (call.pc = "done" /\ call.result.ok) =>
        ReturnedIdentifiers = call.order.identifiers

\* C12, amended: the Order returned by new_order carries the identifier list
\* of the body of the provider's response; it is the submitted list whenever
\* the provider answered with the identifiers it was sent.
C12_ReturnedIsProvidersList ==
    (call.pc = "done" /\ call.result.ok) =>
        /\ ReturnedIdentifiers = LastSent.res.json.val.identifiers
        /\ LastSent.res.json.val.identifiers = SentIdentifiers(Len(call.sent)) =>
               ReturnedIdentifiers = call.order.identifiers

C12_Witness ==
    /\ call.pc = "done"
    /\ call.result.ok
    /\ Len(call.alt_names) = 2
    /\ call.alt_names[1] # call.alt_names[2]
    /\ ReturnedIdentifiers = call.order.identifiers
    /\ ReturnedIdentifiers[1].value = call.primary_name

\* C16: every request new_order has sent is a POST to the order-creation
\* endpoint of the Directory with content type application/jose+json, and its
\* body is an envelope whose protected header names the account resource as
\* key id, the nonce obtained in the same attempt, and that same endpoint as
\* url.
C16_EnvelopeHeader ==
    \A k \in 1..Len(call.sent) :
        LET request == call.sent[k].request IN
        /\ request.req.method = "POST"
        /\ request.req.url = inner.directory.newOrder
        /\ request.req.content_type = "application/jose+json"
        /\ request.body.some
        /\ request.body.val.protected.kid = AccountUrl
        /\ request.body.val.protected.kid = inner.acme_key.key_id
        /\ request.body.val.protected.url = request.req.url
        /\ k <= Len(call.tokens)
        /\ request.body.val.protected.nonce = call.tokens[call.sent[k].attempt]

C16_Witness ==
    /\ Len(call.sent) = 2
    /\ call.sent[2].request.body.val.protected.nonce = call.tokens[2]
    /\ call.sent[2].request.body.val.protected.nonce # call.tokens[1]
    /\ call.sent[2].request.req.content_type = "application/jose+json"

\* C19: in every attempt the nonce is obtained before the envelope is signed
\* and the envelope is signed before the request is sent: a call about to sign
\* holds the nonce of this attempt, a call about to send holds an envelope
\* signed with it, and every request sent carries the envelope of its attempt.
\* When the nonce request fails, new_order has returned that error and
\* nothing was signed or sent in the attempt. When signing fails, the nonce of
\* the attempt was handed out by the Directory and is in no request sent.
C19_NonceSignSend ==
    /\ call.signs <= Len(call.tokens)
    /\ Len(call.sent) <= call.signs
    /\ call.pc = "nonce" =>
           /\ Len(call.tokens) = call.attempts
           /\ call.signs = call.attempts
           /\ Len(call.sent) = call.attempts
    /\ call.pc = "sign" =>
           /\ Len(call.tokens) = call.attempts
           /\ call.nonce = call.tokens[call.attempts]
           /\ call.signs + 1 = call.attempts
           /\ Len(call.sent) + 1 = call.attempts
    /\ call.pc = "send" =>
           /\ Len(call.tokens) = call.attempts
           /\ call.signs = call.attempts
           /\ call.signed.ok
           /\ call.built.val.body = Some(call.signed.val)
           /\ call.signed.val.protected.nonce = call.tokens[call.attempts]
           /\ Len(call.sent) + 1 = call.attempts
    /\ \A k \in 1..Len(call.sent) :
           /\ call.sent[k].attempt = k
           /\ call.sent[k].request.body.some
           /\ SentNonce(k) = call.tokens[k]
    /\ (call.pc = "done" /\ Len(call.tokens) < call.attempts) =>
           /\ call.result = Err("nonce request failed")
           /\ Len(call.tokens) + 1 = call.attempts
           /\ call.signs + 1 = call.attempts
           /\ Len(call.sent) + 1 = call.attempts
    /\ call.result = Err("nonce request failed") =>
           (call.pc = "done" /\ Len(call.tokens) < call.attempts)
    /\ SigningFailed =>
           /\ Len(call.tokens) = call.attempts
           /\ call.tokens[call.attempts] <= dir_nonce
           /\ Len(call.sent) + 1 = call.attempts
           /\ \A k \in 1..Len(call.sent) : SentNonce(k) # call.tokens[call.attempts]

C19_Witness ==
    /\ SigningFailed
    /\ call.attempts = MaxAttempts
    /\ Len(call.tokens) = MaxAttempts
    /\ Len(call.sent) = MaxAttempts - 1
    /\ call.signs = MaxAttempts

\* A step of certificate(): its entry, or one of its two reads.
CertStep == cert' # cert

\* A step in which certificate() returns.
CertReturns == cert.pc # "done" /\ cert'.pc = "done"

\* The steps of certificate() leave the store, the Directory's nonces, the
\* provider and every new_order call as they were.
CertFrame ==
    CertStep => UNCHANGED <<store, puts, call, ncalls, dir_nonce, provider, orders,
                            par, inner>>

\* certificate() returns for the name it last returned for, and no write has
\* reached the store since that earlier call was entered.
SecondCallOnSameStore ==
    /\ CertReturns
    /\ cert.entry_puts = puts
    /\ seen.some
    /\ seen.val.primary_name = cert.primary_name

OwnKey(kind) ==
    [realm |-> inner.contact_email, kind |-> kind, name |-> cert.primary_name]

StoredText(key) == store[key].some /\ IsUtf8(store[key].val)

\* C17: certificate(primary_name) reads at most twice, and only the keys
\* (contact, PrivateKey, primary_name) and (contact, Certificate,
\* primary_name); when it has returned without a backend failure and no write
\* reached the store meanwhile, its result is the Certificate of the two
\* entries under those keys if both are text and none otherwise, whatever the
\* store holds under other contacts and names.
C17_OnlyOwnKeysRead ==
    /\ Len(cert.reads) <= 2
    /\ \A i \in 1..Len(cert.reads) :
           cert.reads[i].key \in {OwnKey("PrivateKey"), OwnKey("Certificate")}
    /\ (cert.pc = "done" /\ CertReadsOk /\ cert.entry_puts = puts) =>
           cert.result =
               Ok(IF StoredText(OwnKey("PrivateKey")) /\ StoredText(OwnKey("Certificate"))
                  THEN Some([private_key |-> store[OwnKey("PrivateKey")].val,
                             certificate |-> store[OwnKey("Certificate")].val])
                  ELSE None)

\* Both halves are stored as text under another contact, none under the
\* Account's: certificate() returned none.
C17_Witness ==
    /\ cert.pc = "done"
    /\ CertReadsOk
    /\ cert.entry_puts = puts
    /\ cert.result = Ok(None)
    /\ \E r \in Realms \ {inner.contact_email} :
           /\ StoredText([realm |-> r, kind |-> "PrivateKey", name |-> cert.primary_name])
           /\ StoredText([realm |-> r, kind |-> "Certificate", name |-> cert.primary_name])

\* C18: the first read of certificate() is of the private key and the second
\* of the certificate; a failed private-key read is the only read; a
\* private-key read that did not fail is followed by the certificate read even
\* when the private key is missing or is not text, and a backend failure of
\* that read is then the result.
C18_KeyThenCertificate ==
    /\ Len(cert.reads) >= 1 => cert.reads[1].key.kind = "PrivateKey"
    /\ Len(cert.reads) >= 2 => cert.reads[2].key.kind = "Certificate"
    /\ cert.pc = "read_key" => Len(cert.reads) = 0
    /\ cert.pc = "read_crt" => (Len(cert.reads) = 1 /\ cert.reads[1].got.ok)
    /\ (Len(cert.reads) >= 1 /\ ~cert.reads[1].got.ok) =>
           (cert.pc = "done" /\ Len(cert.reads) = 1)
    /\ (cert.pc = "done" /\ cert.reads[1].got.ok) => Len(cert.reads) = 2
    /\ (Len(cert.reads) = 2 /\ ~EntryIsText(cert.reads[1].got)
            /\ ~cert.reads[2].got.ok) =>
           cert.result = Err(cert.reads[2].got.err)

C18_Witness ==
    /\ cert.pc = "done"
    /\ Len(cert.reads) = 2
    /\ cert.reads[1].got = Ok(None)
    /\ ~cert.reads[2].got.ok
    /\ cert.result = Err("io")

\* C15: no step of certificate, of new_order or of an accessor changes the
\* directory handle, the contact address, the signing key or the registered
\* account of the Account: they stay what Account::new was given, and the Order
\* a call returns refers to that same inner.
C15_AccountImmutable ==
    [][/\ inner' = inner
       /\ (call'.pc = "done" /\ call'.result.ok) =>
              call'.result.val.order.inner = inner]_vars

C15_Witness ==
    /\ cert.pc = "done"
    /\ call.pc = "done"
    /\ call.result.ok
    /\ ncalls = 2
    /\ ret.some
    /\ ret.val.fn = "acme_private_key_pem"
    /\ ret.val.val = KeyPem
    /\ inner.contact_email = "other@bar.com"

\* The nonces the Directory handed to a caller's new_order.
OwnTokens(t) == {par[t].tokens[i] : i \in 1..Len(par[t].tokens)}

\* The stale-nonce rejections a caller's new_order received.
OwnStale(t) == Cardinality({k \in 1..Len(par[t].sent) : IsStale(par[t].sent[k].res)})

\* C14: in every interleaving of the callers' new_order calls, the k-th
\* request of a call carries the nonce that call obtained in its k-th attempt;
\* no nonce was handed to two calls, so none is in the requests of two calls;
\* the attempts of a call count its own rejections only (one more than its
\* own stale rejections while it runs, and it gives up for a stale nonce only
\* after MaxAttempts rejections of its own); and the Orders returned to
\* different calls have different locations, each that of the call's own last
\* response.
C14_CallsIndependent ==
    /\ \A t \in Threads :
           /\ \A k \in 1..Len(par[t].sent) :
                  /\ par[t].sent[k].request.body.some
                  /\ k <= Len(par[t].tokens)
                  /\ par[t].sent[k].request.body.val.protected.nonce = par[t].tokens[k]
           /\ Cardinality(OwnTokens(t)) = Len(par[t].tokens)
           /\ par[t].attempts <= MaxAttempts
           /\ par[t].pc = "nonce" => par[t].attempts = OwnStale(t)
           /\ par[t].pc \in {"sign", "send"} => par[t].attempts = OwnStale(t) + 1
           /\ par[t].pc = "done" =>
                  \/ par[t].attempts = OwnStale(t) + 1
                  \/ /\ par[t].attempts = OwnStale(t)
                     /\ OwnStale(t) = MaxAttempts
                     /\ par[t].result = Err("badNonce")
           /\ par[t].result = Err("badNonce") => OwnStale(t) = MaxAttempts
           /\ (par[t].pc = "done" /\ par[t].result.ok) =>
                  par[t].result.val.order.url =
                      par[t].sent[Len(par[t].sent)].res.location.val
    /\ \A t, u \in Threads :
           t # u =>
               /\ OwnTokens(t) \cap OwnTokens(u) = {}
               /\ (par[t].result.ok /\ par[u].result.ok) =>
                      par[t].result.val.order.url # par[u].result.val.order.url

\* Both callers hold an Order for the same name; the first needed three
\* attempts, and the second obtained its only nonce between two of them.
C14_Witness ==
    /\ par["t1"].result.ok
    /\ par["t2"].result.ok
    /\ par["t1"].primary_name = par["t2"].primary_name
    /\ par["t1"].attempts = MaxAttempts
    /\ par["t2"].attempts = 1
    /\ par["t1"].tokens[1] < par["t2"].tokens[1]
    /\ par["t2"].tokens[1] < par["t1"].tokens[2]

====
